---- MODULE Spec2Model ----
(***************************************************************************)
(* Model of pkg/cmd/options.go: the options -> validated-configuration     *)
(* pipelines (DNSServiceOptions/DNSServiceConfig, HealthOptions/           *)
(* HealthConfig) and the controller switch registry.                       *)
(*                                                                         *)
(* Go strings that the code inspects (RemoteDefaultDomainSecret, the error *)
(* message) are sequences of one-character strings; strings that are only  *)
(* copied (SeedID, DNSClass) are opaque values.  A *types.NamespacedName   *)
(* is an address into `heap`, so that two holders of the same pointer      *)
(* share the pointee.                                                      *)
(***************************************************************************)
EXTENDS Integers, Sequences, FiniteSets, TLC

VARIABLES opts,      \* the DNSServiceOptions' six exported fields
          config,    \* DNSServiceOptions.config: NoConfig or the pointee
          heap,      \* allocated types.NamespacedName objects, by address
          targets,   \* the downstream config.DNSServiceConfig objects
          hopts,     \* the HealthOptions' exported field
          hconfig,   \* HealthOptions.config: NoConfig or the pointee
          htarget,   \* the downstream healthcheckconfig.HealthCheckConfig
          switches,  \* what the last ControllerSwitches() call returned
          invoked,   \* activation functions the hosting runtime has invoked
          ret        \* the last call and what it returned

vars == <<opts, config, heap, targets, hopts, hconfig, htarget, switches, invoked, ret>>

-----------------------------------------------------------------------------
(* Bounds and input sets *)

MaxLen == 2          \* longest RemoteDefaultDomainSecret drawn
NumTargets == 1      \* downstream DNS config objects

Chars == {"k", "/"}
Strings == UNION {[1..n -> Chars] : n \in 0..MaxLen}
SeedIDs == {"", "seed-1"}
DNSClasses == {"garden", "custom"}
Targets == 1..NumTargets
WrittenParts == {<<"w">>}

-----------------------------------------------------------------------------
(* Go values *)

Nil == 0
NoConfig == [absent |-> TRUE]
EmptyString == <<>>
DefaultHealthCheckSyncPeriod == 30
Durations == {-1, 0, DefaultHealthCheckSyncPeriod}

DefaultOptions ==
  [SeedID |-> "", DNSClass |-> "garden", ManageDNSProviders |-> FALSE,
   ReplicateDNSProviders |-> FALSE, OwnerDNSActivation |-> FALSE,
   RemoteDefaultDomainSecret |-> EmptyString]

AllOptions ==
  [SeedID : SeedIDs, DNSClass : DNSClasses, ManageDNSProviders : BOOLEAN,
   ReplicateDNSProviders : BOOLEAN, OwnerDNSActivation : BOOLEAN,
   RemoteDefaultDomainSecret : Strings]

ZeroTarget ==
  [SeedID |-> "", DNSClass |-> "", ManageDNSProviders |-> FALSE,
   ReplicateDNSProviders |-> FALSE, OwnerDNSActivation |-> FALSE,
   RemoteDefaultDomainSecret |-> Nil]

\* a target that was in use before: every field differs from the zero value
\* and the secret reference points to an object of the target's own
UsedTarget(t) ==
  [SeedID |-> "old-seed", DNSClass |-> "old-class", ManageDNSProviders |-> TRUE,
   ReplicateDNSProviders |-> TRUE, OwnerDNSActivation |-> TRUE,
   RemoteDefaultDomainSecret |-> t]

UsedSecret == [Namespace |-> <<"o">>, Name |-> <<"o">>]

-----------------------------------------------------------------------------
(* strings.Split and fmt.Errorf, as Complete uses them *)

IndexOf(s, c) ==
  IF \E i \in 1..Len(s) : s[i] = c
  THEN CHOOSE i \in 1..Len(s) : s[i] = c /\ \A j \in 1..(i - 1) : s[j] # c
  ELSE 0

RECURSIVE Split(_, _)
Split(s, sep) ==
  LET i == IndexOf(s, sep)
  IN IF i = 0 THEN <<s>>
     ELSE <<SubSeq(s, 1, i - 1)>> \o Split(SubSeq(s, i + 1, Len(s)), sep)

MsgPrefix ==
  <<"i","n","v","a","l","i","d"," ","f","o","r","m","a","t"," ","f","o","r"," ",
    "r","e","m","o","t","e","-","d","e","f","a","u","l","t","-",
    "d","o","m","a","i","n","-","s","e","c","r","e","t",":"," ">>
MsgSuffix ==
  <<" ","(","e","x","p","e","c","t","e","d"," ","'","<","n","a","m","e","s","p","a","c","e",">",
    "/","<","n","a","m","e",">","'",")">>

ErrorfMutant(s) == MsgPrefix \o MsgSuffix
Errorf(s) == MsgPrefix \o s \o MsgSuffix

-----------------------------------------------------------------------------
(* The heap of NamespacedName objects *)

Addrs == 1..(NumTargets + 2)

NewAddr(h) == CHOOSE a \in Addrs : a \notin DOMAIN h /\ \A b \in Addrs : b < a => b \in DOMAIN h

Live(c, ts) ==
  ({ts[t].RemoteDefaultDomainSecret : t \in Targets}
     \cup (IF c = NoConfig THEN {} ELSE {c.RemoteDefaultDomainSecret})) \ {Nil}

\* objects no pointer reaches are reclaimed
Collect(h, c, ts) == [a \in (DOMAIN h \cap Live(c, ts)) |-> h[a]]

Returned(op, ok, msg, t) == [op |-> op, ok |-> ok, msg |-> msg, target |-> t]

-----------------------------------------------------------------------------
(* Flag binding: the flag set stores a parsed value into the bound field *)

SetSeedID(v) ==
  /\ v # opts.SeedID
  /\ opts' = [opts EXCEPT !.SeedID = v]
  /\ ret' = Returned("Set", TRUE, EmptyString, 0)
  /\ UNCHANGED <<config, heap, targets, hopts, hconfig, htarget, switches, invoked>>

SetDNSClass(v) ==
  /\ v # opts.DNSClass
  /\ opts' = [opts EXCEPT !.DNSClass = v]
  /\ ret' = Returned("Set", TRUE, EmptyString, 0)
  /\ UNCHANGED <<config, heap, targets, hopts, hconfig, htarget, switches, invoked>>

SetManageDNSProviders(v) ==
  /\ v # opts.ManageDNSProviders
  /\ opts' = [opts EXCEPT !.ManageDNSProviders = v]
  /\ ret' = Returned("Set", TRUE, EmptyString, 0)
  /\ UNCHANGED <<config, heap, targets, hopts, hconfig, htarget, switches, invoked>>

SetReplicateDNSProviders(v) ==
  /\ v # opts.ReplicateDNSProviders
  /\ opts' = [opts EXCEPT !.ReplicateDNSProviders = v]
  /\ ret' = Returned("Set", TRUE, EmptyString, 0)
  /\ UNCHANGED <<config, heap, targets, hopts, hconfig, htarget, switches, invoked>>

SetOwnerDNSActivation(v) ==
  /\ v # opts.OwnerDNSActivation
  /\ opts' = [opts EXCEPT !.OwnerDNSActivation = v]
  /\ ret' = Returned("Set", TRUE, EmptyString, 0)
  /\ UNCHANGED <<config, heap, targets, hopts, hconfig, htarget, switches, invoked>>

SetRemoteDefaultDomainSecret(v) ==
  /\ v # opts.RemoteDefaultDomainSecret
  /\ opts' = [opts EXCEPT !.RemoteDefaultDomainSecret = v]
  /\ ret' = Returned("Set", TRUE, EmptyString, 0)
  /\ UNCHANGED <<config, heap, targets, hopts, hconfig, htarget, switches, invoked>>

-----------------------------------------------------------------------------
(* DNSServiceOptions.Complete *)

\* the format check: a non-empty value must split on "/" into two parts
InvalidFormatMutant(s, parts) == Len(parts) # 2
InvalidFormat(s, parts) == s # EmptyString /\ Len(parts) # 2

NamespacedNameMutant(parts) == [Namespace |-> parts[2], Name |-> parts[1]]
NamespacedName(parts) == [Namespace |-> parts[1], Name |-> parts[2]]

\* the DNSServiceConfig literal; prev is the config stored so far
DNSServiceConfigMutant(o, prev, a) ==
  [SeedID |-> o.SeedID,
   DNSClass |-> o.DNSClass,
   ManageDNSProviders |-> o.ManageDNSProviders \/ (prev # NoConfig /\ prev.ManageDNSProviders),
   ReplicateDNSProviders |-> o.ReplicateDNSProviders,
   OwnerDNSActivation |-> o.OwnerDNSActivation,
   RemoteDefaultDomainSecret |-> a]
DNSServiceConfig(o, prev, a) ==
  [SeedID |-> o.SeedID,
   DNSClass |-> o.DNSClass,
   ManageDNSProviders |-> o.ManageDNSProviders,
   ReplicateDNSProviders |-> o.ReplicateDNSProviders,
   OwnerDNSActivation |-> o.OwnerDNSActivation,
   RemoteDefaultDomainSecret |-> a]

\* the early return on a malformed value
RejectMutant(s) ==
  /\ ret' = Returned("Complete", FALSE, Errorf(s), 0)
  /\ config' = NoConfig
  /\ heap' = Collect(heap, NoConfig, targets)
  /\ UNCHANGED <<opts, targets, hopts, hconfig, htarget, switches, invoked>>
Reject(s) ==
  /\ ret' = Returned("Complete", FALSE, Errorf(s), 0)
  /\ UNCHANGED <<opts, config, heap, targets, hopts, hconfig, htarget, switches, invoked>>

Complete ==
  LET s == opts.RemoteDefaultDomainSecret
      parts == Split(s, "/")
  IN IF InvalidFormat(s, parts)
     THEN Reject(s)
     ELSE LET a == IF s # EmptyString THEN NewAddr(heap) ELSE Nil
              h == IF s # EmptyString THEN heap @@ (a :> NamespacedName(parts)) ELSE heap
              c == DNSServiceConfig(opts, config, a)
          IN /\ config' = c
             /\ heap' = Collect(h, c, targets)
             /\ ret' = Returned("Complete", TRUE, EmptyString, 0)
             /\ UNCHANGED <<opts, targets, hopts, hconfig, htarget, switches, invoked>>

-----------------------------------------------------------------------------
(* DNSServiceConfig.Apply, on the config Completed() returns *)

Completed == config

\* the six assignments to the target's fields
AppliedMutant(c) ==
  [SeedID |-> c.SeedID,
   DNSClass |-> c.DNSClass,
   ReplicateDNSProviders |-> c.ManageDNSProviders,
   ManageDNSProviders |-> c.ReplicateDNSProviders,
   OwnerDNSActivation |-> c.OwnerDNSActivation,
   RemoteDefaultDomainSecret |-> c.RemoteDefaultDomainSecret]
Applied(c) ==
  [SeedID |-> c.SeedID,
   DNSClass |-> c.DNSClass,
   ReplicateDNSProviders |-> c.ReplicateDNSProviders,
   ManageDNSProviders |-> c.ManageDNSProviders,
   OwnerDNSActivation |-> c.OwnerDNSActivation,
   RemoteDefaultDomainSecret |-> c.RemoteDefaultDomainSecret]

\* an Apply whose DNSClass assignment goes from the target to the receiver
ApplyMutant(t) ==
  IF Completed = NoConfig
  THEN /\ ret' = Returned("Apply", FALSE, EmptyString, t)
       /\ UNCHANGED <<opts, config, heap, targets, hopts, hconfig, htarget, switches, invoked>>
  ELSE LET c == [Completed EXCEPT !.DNSClass = targets[t].DNSClass]
           ts == [targets EXCEPT ![t] = Applied(c)]
       IN /\ targets' = ts
          /\ config' = c
          /\ heap' = Collect(heap, c, ts)
          /\ ret' = Returned("Apply", TRUE, EmptyString, t)
          /\ UNCHANGED <<opts, hopts, hconfig, htarget, switches, invoked>>
Apply(t) ==
  IF Completed = NoConfig
  THEN \* c is nil: reading c.SeedID panics before anything is written
       /\ ret' = Returned("Apply", FALSE, EmptyString, t)
       /\ UNCHANGED <<opts, config, heap, targets, hopts, hconfig, htarget, switches, invoked>>
  ELSE LET c == Completed
           ts == [targets EXCEPT ![t] = Applied(c)]
       IN /\ targets' = ts
          /\ heap' = Collect(heap, config, ts)
          /\ ret' = Returned("Apply", TRUE, EmptyString, t)
          /\ UNCHANGED <<opts, config, hopts, hconfig, htarget, switches, invoked>>

-----------------------------------------------------------------------------
(* The collaborator that owns a target writes to it *)

WriteTargetSecret(t, f, v) ==
  LET a == targets[t].RemoteDefaultDomainSecret
  IN /\ a # Nil
     /\ heap[a][f] # v
     /\ heap' = [heap EXCEPT ![a][f] = v]
     /\ ret' = Returned("WriteTarget", TRUE, EmptyString, t)
     /\ UNCHANGED <<opts, config, targets, hopts, hconfig, htarget, switches, invoked>>

WriteTargetField(t, f, v) ==
  /\ targets[t][f] # v
  /\ targets' = [targets EXCEPT ![t][f] = v]
  /\ heap' = heap
  /\ ret' = Returned("WriteTarget", TRUE, EmptyString, t)
  /\ UNCHANGED <<opts, config, hopts, hconfig, htarget, switches, invoked>>

-----------------------------------------------------------------------------
(* HealthOptions: flag binding, Complete, and HealthConfig.ApplyHealthCheckConfig *)

SetHealthCheckSyncPeriod(d) ==
  /\ d # hopts.HealthCheckSyncPeriod
  /\ hopts' = [hopts EXCEPT !.HealthCheckSyncPeriod = d]
  /\ ret' = Returned("Set", TRUE, EmptyString, 0)
  /\ UNCHANGED <<opts, config, heap, targets, hconfig, htarget, switches, invoked>>

\* metav1.Duration{Duration: d}
MetaV1DurationMutant(d) == [Duration |-> 0]
MetaV1Duration(d) == [Duration |-> d]

HealthComplete ==
  /\ hconfig' = [HealthCheckSyncPeriod |-> MetaV1Duration(hopts.HealthCheckSyncPeriod)]
  /\ ret' = Returned("HealthComplete", TRUE, EmptyString, 0)
  /\ UNCHANGED <<opts, config, heap, targets, hopts, htarget, switches, invoked>>

HealthCompleted == hconfig

ApplyHealthCheckConfig ==
  IF HealthCompleted = NoConfig
  THEN \* c is nil: reading c.HealthCheckSyncPeriod panics
       /\ ret' = Returned("ApplyHealthCheckConfig", FALSE, EmptyString, 0)
       /\ UNCHANGED <<opts, config, heap, targets, hopts, hconfig, htarget, switches, invoked>>
  ELSE /\ htarget' = [htarget EXCEPT !.SyncPeriod = HealthCompleted.HealthCheckSyncPeriod]
       /\ ret' = Returned("ApplyHealthCheckConfig", TRUE, EmptyString, 0)
       /\ UNCHANGED <<opts, config, heap, targets, hopts, hconfig, switches, invoked>>

-----------------------------------------------------------------------------
(* ControllerSwitches *)

LifecycleName == "lifecycle"
ReplicationName == "replication"
HealthCheckControllerName == "healthcheck"

Switch(name, addToManager) == [Name |-> name, AddToManager |-> addToManager]

NewSwitchOptions(pairs) == pairs

ControllerSwitchesMutant ==
  NewSwitchOptions(<<
    Switch(LifecycleName, "replication.AddToManager"),
    Switch(ReplicationName, "lifecycle.AddToManager"),
    Switch(HealthCheckControllerName, "healthcheck.RegisterHealthChecks")>>)
ControllerSwitches ==
  NewSwitchOptions(<<
    Switch(LifecycleName, "lifecycle.AddToManager"),
    Switch(ReplicationName, "replication.AddToManager"),
    Switch(HealthCheckControllerName, "healthcheck.RegisterHealthChecks")>>)

CallControllerSwitches ==
  /\ switches' = ControllerSwitches
  /\ ret' = Returned("ControllerSwitches", TRUE, EmptyString, 0)
  /\ UNCHANGED <<opts, config, heap, targets, hopts, hconfig, htarget, invoked>>

\* the hosting runtime starts a controller of the registry it was given
Activate(i) ==
  /\ i \in 1..Len(switches)
  /\ switches[i].AddToManager \notin invoked
  /\ invoked' = invoked \cup {switches[i].AddToManager}
  /\ ret' = Returned("Activate", TRUE, EmptyString, 0)
  /\ UNCHANGED <<opts, config, heap, targets, hopts, hconfig, htarget, switches>>

-----------------------------------------------------------------------------
(* Specifications *)

InitOther ==
  /\ hopts = [HealthCheckSyncPeriod |-> DefaultHealthCheckSyncPeriod]
  /\ hconfig = NoConfig
  /\ htarget = [SyncPeriod |-> MetaV1Duration(0)]
  /\ switches = <<>>
  /\ invoked = {}
  /\ ret = Returned("init", TRUE, EmptyString, 0)

\* the options as constructed and bound to the flag set, then any flags, any
\* Complete() calls
Init ==
  /\ opts = DefaultOptions
  /\ config = NoConfig
  /\ heap = <<>>
  /\ targets = [t \in Targets |-> ZeroTarget]
  /\ InitOther

SetFlag ==
  \/ \E v \in SeedIDs : SetSeedID(v)
  \/ \E v \in DNSClasses : SetDNSClass(v)
  \/ \E v \in BOOLEAN : SetManageDNSProviders(v)
  \/ \E v \in BOOLEAN : SetReplicateDNSProviders(v)
  \/ \E v \in BOOLEAN : SetOwnerDNSActivation(v)
  \/ \E v \in Strings : SetRemoteDefaultDomainSecret(v)

Next ==
  \/ SetFlag
  \/ Complete

Spec == Init /\ [][Next]_vars

\* any parsed options, targets fresh or used before; Complete, Apply and the
\* targets' owners writing to them
InitApply ==
  /\ opts \in AllOptions
  /\ config = NoConfig
  /\ \E used \in SUBSET Targets :
       /\ targets = [t \in Targets |-> IF t \in used THEN UsedTarget(t) ELSE ZeroTarget]
       /\ heap = [t \in used |-> UsedSecret]
  /\ InitOther

NextApply ==
  \/ Complete
  \/ \E t \in Targets : Apply(t)
  \/ \E t \in Targets, f \in {"Namespace", "Name"}, v \in WrittenParts : WriteTargetSecret(t, f, v)

SpecApply == InitApply /\ [][NextApply]_vars

\* a config that outlives its making: the options change again (the DNS class
\* and the secret; the other flags stay at their defaults), Complete and Apply
\* run again, and the targets' owners write to what Apply gave them
NextAlias ==
  \/ \E v \in DNSClasses : SetDNSClass(v)
  \/ \E v \in Strings : SetRemoteDefaultDomainSecret(v)
  \/ Complete
  \/ \E t \in Targets : Apply(t)
  \/ \E t \in Targets, f \in {"Namespace", "Name"}, v \in WrittenParts : WriteTargetSecret(t, f, v)
  \/ \E t \in Targets, v \in BOOLEAN : WriteTargetField(t, "ManageDNSProviders", v)

SpecAlias == Init /\ [][NextAlias]_vars

\* process startup: both option groups bound to their flags, the scalar DNS
\* options left at their defaults and any secret given, then completed and
\* applied to the downstream objects
InitWiring ==
  /\ opts \in {[DefaultOptions EXCEPT !.RemoteDefaultDomainSecret = s] : s \in Strings}
  /\ config = NoConfig
  /\ heap = <<>>
  /\ targets = [t \in Targets |-> ZeroTarget]
  /\ InitOther

NextWiring ==
  \/ Complete
  \/ \E t \in Targets : Apply(t)
  \/ \E d \in Durations : SetHealthCheckSyncPeriod(d)
  \/ HealthComplete
  \/ ApplyHealthCheckConfig

SpecWiring == InitWiring /\ [][NextWiring]_vars

\* the switch registry built and used by the hosting runtime, next to the
\* health-check pipeline of the controller it switches
NextSwitches ==
  \/ CallControllerSwitches
  \/ \E i \in 1..3 : Activate(i)
  \/ \E d \in Durations : SetHealthCheckSyncPeriod(d)
  \/ HealthComplete
  \/ ApplyHealthCheckConfig

SpecSwitches == Init /\ [][NextSwitches]_vars

-----------------------------------------------------------------------------
(* What the properties speak of *)

SlashCount(s) == Cardinality({i \in 1..Len(s) : s[i] = "/"})

\* for a string with exactly one "/": what stands before it and after it
Before(s) == SubSeq(s, 1, (CHOOSE i \in 1..Len(s) : s[i] = "/") - 1)
After(s) == SubSeq(s, (CHOOSE i \in 1..Len(s) : s[i] = "/") + 1, Len(s))

Contains(m, s) == \E i \in 1..(Len(m) - Len(s) + 1) : SubSeq(m, i, i + Len(s) - 1) = s

Absent == [absent |-> TRUE]
NoSuchSecret == [invalid |-> TRUE]

\* the NamespacedName a pointer leads to in heap h
SecretAt(a, h) == IF a = Nil THEN Absent ELSE h[a]

ExpectedSecret(s) ==
  IF s = EmptyString THEN Absent
  ELSE IF SlashCount(s) = 1 THEN [Namespace |-> Before(s), Name |-> After(s)]
  ELSE NoSuchSecret

\* x (a config or a target, its pointer read in heap h) has the six values of options o
HoldsOptions(x, h, o) ==
  /\ x.SeedID = o.SeedID
  /\ x.DNSClass = o.DNSClass
  /\ x.ManageDNSProviders = o.ManageDNSProviders
  /\ x.ReplicateDNSProviders = o.ReplicateDNSProviders
  /\ x.OwnerDNSActivation = o.OwnerDNSActivation
  /\ SecretAt(x.RemoteDefaultDomainSecret, h) = ExpectedSecret(o.RemoteDefaultDomainSecret)

Secret == opts.RemoteDefaultDomainSecret

-----------------------------------------------------------------------------
(* Properties *)

\* C1: Complete() on a non-empty RemoteDefaultDomainSecret with exactly one "/"
\* succeeds, and the stored config then has a secret reference whose Namespace
\* is what stands before the "/" and whose Name is what stands after it, empty
\* parts included.
C1_OneSlashParsed ==
  (ret.op = "Complete" /\ Secret # EmptyString /\ SlashCount(Secret) = 1) =>
    /\ ret.ok
    /\ Completed # NoConfig
    /\ Completed.RemoteDefaultDomainSecret # Nil
    /\ LET n == heap[Completed.RemoteDefaultDomainSecret]
       IN /\ n.Namespace = Before(Secret)
          /\ n.Name = After(Secret)
          /\ n.Namespace \o <<"/">> \o n.Name = Secret

C1_Witness ==
  /\ ret.op = "Complete" /\ ret.ok
  /\ Secret = <<"/", "k">>
  /\ Completed # NoConfig
  /\ SecretAt(Completed.RemoteDefaultDomainSecret, heap) = [Namespace |-> EmptyString, Name |-> <<"k">>]

\* C2 as stated: Complete() on any RemoteDefaultDomainSecret with zero or with
\* two or more "/" fails with an error whose message contains the value.
C2_Original ==
  (ret.op = "Complete" /\ SlashCount(Secret) # 1) =>
    (~ret.ok /\ Contains(ret.msg, Secret))

\* C2 amended: Complete() on any non-empty RemoteDefaultDomainSecret with zero
\* or with two or more "/" fails with an error whose message contains the value.
C2_NonEmptyMalformedRejected ==
  (ret.op = "Complete" /\ Secret # EmptyString /\ SlashCount(Secret) # 1) =>
    (~ret.ok /\ Contains(ret.msg, Secret))

C2_Witness ==
  /\ ret.op = "Complete" /\ ~ret.ok
  /\ Secret = <<"/", "/">>
  /\ Contains(ret.msg, Secret)

\* C3: a failing Complete() leaves the stored config and the six option fields
\* as they were, and the stored config goes from absent to present only in a
\* Complete() that succeeds.
C3_FailureKeepsState ==
  [][/\ (ret'.op = "Complete" /\ ~ret'.ok) =>
          (config' = config /\ heap' = heap /\ opts' = opts)
     /\ (config = NoConfig /\ config' # NoConfig) =>
          (ret'.op = "Complete" /\ ret'.ok)]_vars

C3_Witness ==
  /\ ret.op = "Complete" /\ ~ret.ok
  /\ Completed # NoConfig
  /\ ~HoldsOptions(Completed, heap, opts)

\* C4 as stated: after every call to Complete(), a stored config is the one
\* derived from the option values of that call.
C4_Original ==
  (ret.op = "Complete" /\ Completed # NoConfig) => HoldsOptions(Completed, heap, opts)

\* C4 amended: after every call to Complete() that succeeds, whatever flags
\* were set and whatever Complete() calls came before, the stored config is the
\* one derived from the option values of that call.
C4_SuccessOverwrites ==
  (ret.op = "Complete" /\ ret.ok) =>
    (Completed # NoConfig /\ HoldsOptions(Completed, heap, opts))

C4_Witness ==
  /\ ret.op = "Complete" /\ ret.ok
  /\ opts.SeedID = "seed-1" /\ ~opts.ManageDNSProviders /\ opts.OwnerDNSActivation
  /\ Secret = <<"k", "/">>
  /\ Completed # NoConfig /\ ~Completed.ManageDNSProviders

\* C6: Complete() on an empty RemoteDefaultDomainSecret succeeds whatever the
\* other five fields are; the stored config has no secret reference and the
\* other five fields of the options.
C6_EmptySecretAbsent ==
  (ret.op = "Complete" /\ Secret = EmptyString) =>
    /\ ret.ok
    /\ Completed # NoConfig
    /\ Completed.RemoteDefaultDomainSecret = Nil
    /\ Completed.SeedID = opts.SeedID
    /\ Completed.DNSClass = opts.DNSClass
    /\ Completed.ManageDNSProviders = opts.ManageDNSProviders
    /\ Completed.ReplicateDNSProviders = opts.ReplicateDNSProviders
    /\ Completed.OwnerDNSActivation = opts.OwnerDNSActivation

C6_Witness ==
  /\ ret.op = "Complete" /\ ret.ok
  /\ Secret = EmptyString
  /\ opts.SeedID = "seed-1" /\ opts.DNSClass = "custom" /\ opts.ReplicateDNSProviders
  /\ Completed # NoConfig /\ Completed.RemoteDefaultDomainSecret = Nil

\* C5: Apply(target) on the config of a Complete() that just succeeded does
\* not fail and leaves the target's six fields equal to the options' values,
\* each boolean in the field of its own name and the secret reference as
\* parsed, or absent for an empty value, whatever the target held before.
C5_ApplyCopiesOptions ==
  [][(ret.op = "Complete" /\ ret.ok /\ ret'.op = "Apply") =>
       (ret'.ok /\ HoldsOptions(targets'[ret'.target], heap', opts))]_vars

C5_Witness ==
  /\ ret.op = "Apply" /\ ret.ok
  /\ opts.ManageDNSProviders /\ ~opts.ReplicateDNSProviders /\ ~opts.OwnerDNSActivation
  /\ Secret = EmptyString
  /\ HoldsOptions(targets[ret.target], heap, opts)

\* C7: a call of Apply or ApplyHealthCheckConfig changes nothing but the
\* target it is given: the source configs with what their secret reference
\* points to, the options, the stored config slots and the other targets stay
\* as they were.
C7_ApplyWritesTargetOnly ==
  [][(ret'.op \in {"Apply", "ApplyHealthCheckConfig"}) =>
       /\ UNCHANGED <<opts, config, hopts, hconfig>>
       /\ (config # NoConfig =>
             SecretAt(config.RemoteDefaultDomainSecret, heap')
               = SecretAt(config.RemoteDefaultDomainSecret, heap))
       /\ (ret'.op = "Apply" =>
             /\ htarget' = htarget
             /\ \A t \in Targets \ {ret'.target} : targets'[t] = targets[t])
       /\ (ret'.op = "ApplyHealthCheckConfig" => targets' = targets /\ heap' = heap)]_vars

C7_Witness ==
  /\ ret.op = "Apply" /\ ret.ok
  /\ Completed.RemoteDefaultDomainSecret # Nil
  /\ targets[ret.target].RemoteDefaultDomainSecret = Completed.RemoteDefaultDomainSecret
  /\ htarget.SyncPeriod = MetaV1Duration(DefaultHealthCheckSyncPeriod)

DNSState == <<opts, config, heap, targets>>

\* C8: HealthOptions.Complete() succeeds for every HealthCheckSyncPeriod d and
\* stores a HealthConfig that wraps d; ApplyHealthCheckConfig(target) then
\* sets the target's SyncPeriod to the wrapped value without failing; neither
\* reads or changes the DNSServiceOptions, its config or its targets.
C8_HealthPipeline ==
  [][/\ (ret'.op = "HealthComplete") =>
          /\ ret'.ok
          /\ hconfig' # NoConfig
          /\ hconfig'.HealthCheckSyncPeriod.Duration = hopts.HealthCheckSyncPeriod
          /\ hopts' = hopts
          /\ DNSState' = DNSState
     /\ (ret'.op = "ApplyHealthCheckConfig" /\ hconfig # NoConfig) =>
          /\ ret'.ok
          /\ htarget'.SyncPeriod = hconfig.HealthCheckSyncPeriod
          /\ hconfig' = hconfig
          /\ DNSState' = DNSState]_vars

C8_Witness ==
  /\ ret.op = "ApplyHealthCheckConfig" /\ ret.ok
  /\ hopts.HealthCheckSyncPeriod = -1
  /\ htarget.SyncPeriod.Duration = -1
  /\ SlashCount(Secret) = 2
  /\ config = NoConfig

\* C9: every call of ControllerSwitches() succeeds and returns three entries:
\* the lifecycle, the replication and the health-check controller in this
\* order, under three different names, each with the activation function of
\* its own controller; a later call returns the same registry, and no call
\* invokes an activation function.
C9_ThreeSwitches ==
  [][(ret'.op = "ControllerSwitches") =>
       /\ ret'.ok
       /\ Len(switches') = 3
       /\ switches'[1] = [Name |-> LifecycleName, AddToManager |-> "lifecycle.AddToManager"]
       /\ switches'[2] = [Name |-> ReplicationName, AddToManager |-> "replication.AddToManager"]
       /\ switches'[3] = [Name |-> HealthCheckControllerName,
                          AddToManager |-> "healthcheck.RegisterHealthChecks"]
       /\ Cardinality({switches'[i].Name : i \in 1..3}) = 3
       /\ (switches # <<>> => switches' = switches)
       /\ invoked' = invoked]_vars

C9_Witness ==
  /\ ret.op = "ControllerSwitches"
  /\ Len(switches) = 3
  /\ Cardinality(invoked) = 3

\* what Completed() returns, with its secret reference followed
ConfigValue ==
  IF config = NoConfig THEN NoConfig
  ELSE [config EXCEPT !.RemoteDefaultDomainSecret = SecretAt(@, heap)]

\* C10: once Complete() has stored a config, neither setting a flag nor a
\* write to a field of a target that Apply filled, the Namespace and Name of
\* its secret reference included, changes any field of that config.
C10_ConfigImmutable ==
  [][(config # NoConfig /\ ret'.op \in {"Set", "WriteTarget"}) =>
       ConfigValue' = ConfigValue]_vars

====
